---- MODULE Spec2Model ----
(***************************************************************************)
(* State-machine model of the alarm clock firmware Project_Alarmclock.ino. *)
(*                                                                         *)
(* The foreground loop() is a sequential process whose position is pc; it  *)
(* is cut into one step per access to a variable an interrupt handler      *)
(* reads or writes (display flags, digit buffer, intensity, encoderPos,    *)
(* rotating).  Statements on foreground-only variables are merged into     *)
(* the neighbouring step.  A `for' loop over the digit buffer takes one    *)
(* step per element it stores; inside such a loop pc names the loop and    *)
(* the number of elements already stored.  The three interrupt handlers    *)
(* (iProcess, doEncoderA, doEncoderB) run to completion and may fire       *)
(* between any two steps of loop(), between two stores of a loop included. *)
(*                                                                         *)
(* colonOn, led3On and digitValue[] are written by loop() and read by      *)
(* iProcess without being volatile.  loop() stores them in the order of    *)
(* the source, but what iProcess reads is a choice: the value stored, or   *)
(* the value a store further on in loop() will write, as long as no call   *)
(* (millis(), RTC, digitalRead, tone) lies in between, since a build may   *)
(* move and merge such stores; and for a flag computed from the second,    *)
(* the byte of the second before it is reduced to 0 or 1.                  *)
(* In the button block the store of currentDisplayStatus, the reading of   *)
(* millis() into soundMillis and the store of colonOn are steps of their   *)
(* own.  The test of line 457 and the store of line 459 read millis() in   *)
(* one step: a millisecond passing between the two leaves the same state   *)
(* as one passing just before the step.                                    *)
(* The environment is the millisecond counter, the RTC chip, the push      *)
(* button line and the re-sampled levels of the two encoder lines.         *)
(***************************************************************************)
EXTENDS Integers, Sequences, FiniteSets, TLC

\* ------------------------------------------------------------------------
\* Bounds of the model
\* ------------------------------------------------------------------------
\* millis() advances in steps of TickMillis up to MaxMillis
TickMillis == 500
MaxMillis == 3000
\* ... and up to ShortMillis where every input and interrupt is there at once
ShortMillis == 2000
\* ... in steps of CoarseTick; up to IdleMillis where the inactivity limit
\* is to be passed
CoarseTick == 1000
IdleMillis == 12000
\* ... and in steps of PlayTick up to PlayMillis where the play limit is
PlayTick == 10000
PlayMillis == 80000
\* ... after a lead of PlayLead in steps of CoarseTick, in which the melody
\* is started
PlayLead == 2000
\* level changes of the encoder lines: turning the knob / one click
MaxEdges == 5
OneEdge == 1
\* seconds counted by the RTC
MaxRtcTicks == 1
\* timer interrupts: a single one / more than two rounds of the four digits /
\* one dwell of a digit and the first tick of the next
OneIrq == 1
MaxIrqs == 100
DimIrqs == 12
\* millis() in steps of NoteTick up to NoteMillis: shorter than a note, and
\* long enough for a track of two notes to be gone through
NoteTick == 250
NoteMillis == 2500
\* millis() for four presses of the button, each accepted
ToggleMillis == 4000
\* level changes of the encoder lines in a steady turn: two cycles and one
SteadyEdges == 9
\* level changes of the encoder lines for one click forth and one back
TurnEdges == 3
\* |encoderPos| is capped (the int never overflows in the model)
MaxEnc == 2
\* observers that count events saturate here
MaxCount == 2

\* ------------------------------------------------------------------------
\* Program constants
\* ------------------------------------------------------------------------
symbol ==
  << 252, 96, 218, 242, 102, 182, 190, 224, 254, 246,
     0, 0, 2, 18, 2, 0, 0,
     238, 62, 156, 122, 158, 142, 246, 46,
     96, 112, 2, 28, 2, 236, 252, 206,
     230, 140, 182, 30, 56, 124, 2, 110,
     102, 218 >>

\* symbol[i] of the source (C arrays are 0-based)
Symbol(i) == symbol[i + 1]

digitCode == <<8, 4, 2, 1>>
colonCode == 64
led3Code == 32

\* menuText as ASCII codes: "CNDY", "PAPA", "TIJD", "ALAR", "AL>?"
menuText ==
  << <<67, 78, 68, 89>>, <<80, 65, 80, 65>>, <<84, 73, 74, 68>>,
     <<65, 76, 65, 82>>, <<65, 76, 62, 63>> >>
menuItemCount == 5
menuDelay == 9000
maxPlayDuration == 60000
buttonDelay == 500
maxIntensity == 10
maxStep == 10

\* byte getSymbol(char character)
getSymbol(character) == Symbol(character - 48)

\* ~x on a byte
NotByte(x) == 255 - x

\* millis() - since; both are unsigned long, and the counter does not wrap
\* within the horizon of the model (it wraps after 49 days), so since <= t
Elapsed(t, since) == t - since

\* DateTime accessors on a unixtime (seconds; day 0 starts at 00:00:00)
Hour(t) == (t \div 3600) % 24
Minute(t) == (t \div 60) % 60
Second(t) == t % 60

\* one pass of the body of the for loop that renders toDisplay into
\* digitValue[3..0]; yields <<digitValue, toDisplay>> as the pass leaves them
ShowDigit(digit, td, dv) ==
  IF td > 0
  THEN <<[dv EXCEPT ![digit + 1] = Symbol(td % 10)], td \div 10>>
  ELSE <<[dv EXCEPT ![digit + 1] = IF digit = 3 THEN Symbol(0) ELSE 0], td>>

\* one pass of the body of the for loop that renders
\* menuText[activeMenuOption]
MenuDigit(opt, digit, dv) ==
  [dv EXCEPT ![digit + 1] = getSymbol(menuText[opt + 1][digit + 1])]

\* the passes digit, digit - 1, .. 0 of the for loop that renders toDisplay;
\* yields digitValue as the loop leaves it
RECURSIVE DigitLoop(_, _, _)
DigitLoop(digit, td, dv) ==
  IF digit < 0 THEN dv
  ELSE DigitLoop(digit - 1, ShowDigit(digit, td, dv)[2],
                 ShowDigit(digit, td, dv)[1])

\* digitValue as the for loop over menuText[activeMenuOption] and the
\* statement after it leave it
MenuDigits(opt, active) ==
  [d \in 1..4 |->
     IF opt = 4 /\ d = 4
     THEN IF active THEN Symbol(1) ELSE Symbol(0)
     ELSE getSymbol(menuText[opt + 1][d])]

\* the position of loop() inside the for loop at `here' after `done' passes
InLoop(here, done) ==
  IF done = 0 THEN here ELSE here \o "_" \o ToString(done)

\* ------------------------------------------------------------------------
\* Melody data (melody.h)
\* ------------------------------------------------------------------------
END == -1
REST == 0
NOTE_C4 == 262
NOTE_E4 == 330
NOTE_G4 == 392

tempo1 == 120
tempo2 == 120
tempo3 == 120

melody1 == <<NOTE_C4, 4, END>>
melody2 == <<NOTE_E4, 4, NOTE_G4, -4, END>>
melody3 == <<NOTE_G4, -4, REST, 4, END>>

\* *(melody + i)
Deref(m, i) ==
  LET track == CASE m = "melody1" -> melody1
                 [] m = "melody2" -> melody2
                 [] OTHER -> melody3
  IN track[i + 1]

TempoOf(m) ==
  CASE m = "melody1" -> tempo1
    [] m = "melody2" -> tempo2
    [] OTHER -> tempo3

\* wholenote = (60000 * 4) / tempo
WholeNote(t) == (60000 * 4) \div t

Abs(x) == IF x < 0 THEN -x ELSE x

\* a variant of the operator below, which the properties must tell from it:
\* a dotted note is no longer than a plain one
NoteDurationPlain(wn, div, old) ==
  IF div # 0 THEN wn \div Abs(div) ELSE old

\* the note duration computed from the duration code; a code of 0 leaves
\* noteDuration as it was
NoteDuration(wn, div, old) ==
  IF div > 0 THEN wn \div div
  ELSE IF div < 0 THEN ((wn \div Abs(div)) * 3) \div 2
  ELSE old

\* noteDuration*0.9 converted to the unsigned long of tone()
ToneDuration(nd) == (nd * 9) \div 10

\* a | b on bytes
RECURSIVE OrBits(_, _, _)
OrBits(a, b, k) ==
  IF k > 7 THEN 0
  ELSE (IF (a \div (2 ^ k)) % 2 = 1 \/ (b \div (2 ^ k)) % 2 = 1
        THEN 2 ^ k ELSE 0) + OrBits(a, b, k + 1)
BitOr(a, b) == OrBits(a, b, 0)

Min(a, b) == IF a < b THEN a ELSE b

\* ------------------------------------------------------------------------
\* State
\* ------------------------------------------------------------------------
VARIABLES
  \* position of loop()
  pc,
  \* globals of the sketch
  intensity, drawDigit, stepCounter, colonOn, led3On, currentDisplayStatus,
  activeMenuOption, menuStartMillis, blinkMillis, digitValue,
  noteMillis, soundMillis, melody, currentNote, divider, noteDuration,
  tempo, wholenote,
  now, toDisplay, alarmHour, alarmMinute, alarmActive,
  encoderPos, rotating, A_set, B_set,
  \* environment: millis(), the RTC chip (unixtime), the push button line
  millis, rtc, pushButton,
  \* how the knob is being turned: "free" (any line may change or bounce at
  \* any time), or steadily "forward" or "backward" without bouncing
  knob,
  \* how much the environment has done: seconds counted by the RTC, accepted
  \* level changes of the encoder lines, timer interrupts
  rtcTicks, edges, timerTicks,
  \* outputs: last command sent to the speaker, last frame latched into
  \* the shift registers
  speaker, frame,
  \* observers (history of the run, read by the properties only)
  iterCase,       \* currentDisplayStatus as the switch of this iteration saw it
  found,          \* nonzero encoderPos values this iteration's tests read
  adjusts,        \* directions of the adjustments this iteration applied
  irqAfter,       \* an encoder handler changed encoderPos since the
                  \* iteration began or last reset it
  firesInMinute,  \* alarm firings since the RTC minute last changed
  pressActions,   \* button actions since the button line last changed
  litTicks,       \* lit sub-ticks of the current digit dwell so far
  lastDwell       \* lit sub-ticks of the last completed dwell (-1: none)

vUI == <<currentDisplayStatus, activeMenuOption, menuStartMillis, blinkMillis>>
vDisp == <<colonOn, led3On, digitValue, toDisplay>>
vMux == <<drawDigit, stepCounter, frame, litTicks, lastDwell>>
vSnd == <<noteMillis, soundMillis, melody, currentNote, divider,
          noteDuration, tempo, wholenote, speaker>>
vAlarm == <<alarmHour, alarmMinute, alarmActive>>
vEnc == <<encoderPos, rotating, A_set, B_set>>
vEnv == <<millis, rtc, pushButton, knob, rtcTicks, edges, timerTicks>>
vObs == <<iterCase, found, adjusts, irqAfter, firesInMinute, pressActions>>

vars == <<pc, intensity, now, vUI, vDisp, vMux, vSnd, vAlarm, vEnc, vEnv, vObs>>

NoFrame == [lit |-> FALSE, word2 |-> 255, word1 |-> 255]
NoCommand == [cmd |-> "none", freq |-> 0, dur |-> 0]

\* the globals as their initialisers leave them (lines 99-137), setup() done,
\* with the RTC reading start; level, option and active stand for intensity,
\* activeMenuOption and alarmActive, which the sketch initialises to 1, 0 and
\* false and the user changes through the encoder and the menu; hour and
\* minute stand for the alarm time, which the user changes in setAlarm
SetupAt(level, option, active, start, hour, minute) ==
  /\ pc = "begin"
  /\ intensity = level
  /\ drawDigit = 0
  /\ stepCounter = 0
  /\ colonOn = FALSE
  /\ led3On = FALSE
  /\ currentDisplayStatus = "time"
  /\ activeMenuOption = option
  /\ menuStartMillis = 0
  /\ blinkMillis = 0
  /\ digitValue = <<0, 0, 0, 0>>
  /\ noteMillis = 0
  /\ soundMillis = 0
  /\ melody = "null"
  /\ currentNote = 0
  /\ divider = 0
  /\ noteDuration = 0
  /\ tempo = 0
  /\ wholenote = 0
  /\ now = 0
  /\ toDisplay = 0
  /\ alarmHour = hour
  /\ alarmMinute = minute
  /\ alarmActive = active
  /\ encoderPos = 0
  /\ rotating = FALSE
  /\ A_set = FALSE
  /\ B_set = FALSE
  /\ millis = 0
  /\ rtc = start
  /\ pushButton = "HIGH"
  /\ knob = "free"
  /\ rtcTicks = 0
  /\ edges = 0
  /\ timerTicks = 0
  /\ speaker = NoCommand
  /\ frame = NoFrame
  /\ iterCase = "time"
  /\ found = <<>>
  /\ adjusts = <<>>
  /\ irqAfter = FALSE
  /\ firesInMinute = 0
  /\ pressActions = 0
  /\ litTicks = 0
  /\ lastDwell = -1

\* int alarmHour = 7; int alarmMinute = 0; (lines 127-128)
Setup(level, option, active, start) ==
  SetupAt(level, option, active, start, 7, 0)

\* clock readings of the RTC (unixtime within day 1, so that the clock can
\* be set back)
ClockAt(h, m, sec) == 86400 + h * 3600 + m * 60 + sec

\* ------------------------------------------------------------------------
\* loop(): start of an iteration (lines 179-199)
\* ------------------------------------------------------------------------
\* a variant of the operator below, which the properties must tell from it:
\* state setTime runs the statements of case setAlarm
CasePcSetTimeAsAlarm(status) ==
  CASE status = "time" -> "t_led3"
    [] status = "setTime" -> "a_led3"
    [] status = "menu" -> "m_digits"
    [] status = "setAlarm" -> "a_led3"
    [] OTHER -> "p_digits"

\* switch (currentDisplayStatus): the first step of the case taken
CasePc(status) ==
  CASE status = "time" -> "t_led3"
    [] status = "setTime" -> "s_led3"
    [] status = "menu" -> "m_digits"
    [] status = "setAlarm" -> "a_led3"
    [] OTHER -> "p_digits"

\* now = RTC.now(); toDisplay; entry of the switch
Begin ==
  /\ pc = "begin"
  /\ now' = rtc
  /\ toDisplay' =
       IF currentDisplayStatus \in {"time", "setTime", "playingMelody"}
       THEN Hour(rtc) * 100 + Minute(rtc)
       ELSE IF currentDisplayStatus = "setAlarm"
            THEN alarmHour * 100 + alarmMinute
            ELSE toDisplay
  /\ pc' = CasePc(currentDisplayStatus)
  /\ iterCase' = currentDisplayStatus
  /\ irqAfter' = FALSE
  /\ UNCHANGED <<intensity, vUI, colonOn, led3On, digitValue, vMux, vSnd,
                 vAlarm, vEnc, vEnv, found, adjusts, firesInMinute,
                 pressActions>>

\* ------------------------------------------------------------------------
\* Steps shared by the cases of the switch
\* ------------------------------------------------------------------------
\* led3On = alarmActive;
SetLed3(here, next) ==
  /\ pc = here
  /\ led3On' = alarmActive
  /\ pc' = next
  /\ UNCHANGED <<intensity, now, vUI, colonOn, digitValue, toDisplay, vMux,
                 vSnd, vAlarm, vEnc, vEnv, vObs>>

\* the for loop showing toDisplay, one pass (digit = 3, 2, 1, 0) a step
ShowDigits(here, next) ==
  /\ \E digit \in 0..3 :
       /\ pc = InLoop(here, 3 - digit)
       /\ digitValue' = ShowDigit(digit, toDisplay, digitValue)[1]
       /\ toDisplay' = ShowDigit(digit, toDisplay, digitValue)[2]
       /\ pc' = IF digit = 0 THEN next ELSE InLoop(here, 4 - digit)
  /\ UNCHANGED <<intensity, now, vUI, colonOn, led3On, vMux, vSnd, vAlarm,
                 vEnc, vEnv, vObs>>

\* if (encoderPos > 0) / if (encoderPos < 0): the test alone
EncTest(here, positive, yes, no) ==
  /\ pc = here
  /\ IF (positive /\ encoderPos > 0) \/ (~positive /\ encoderPos < 0)
     THEN pc' = yes /\ found' = Append(found, encoderPos)
     ELSE pc' = no /\ UNCHANGED found
  /\ UNCHANGED <<intensity, now, vUI, vDisp, vMux, vSnd, vAlarm, vEnc, vEnv,
                 iterCase, adjusts, irqAfter, firesInMinute, pressActions>>

\* a variant of the step below, which the properties must tell from it:
\* the inactivity limit is reached at 9000 ms, not after
MenuTimeoutAtLimit(here) ==
  /\ pc = here
  /\ currentDisplayStatus' =
       IF Elapsed(millis, menuStartMillis) >= menuDelay
       THEN "time" ELSE currentDisplayStatus
  /\ pc' = "rotating"
  /\ UNCHANGED <<intensity, now, activeMenuOption, menuStartMillis,
                 blinkMillis, vDisp, vMux, vSnd, vAlarm, vEnc, vEnv, vObs>>

\* a variant of the step below, which the properties must tell from it:
\* the inactivity limit leads back to the menu
MenuTimeoutToMenu(here) ==
  /\ pc = here
  /\ currentDisplayStatus' =
       IF Elapsed(millis, menuStartMillis) > menuDelay
       THEN "menu" ELSE currentDisplayStatus
  /\ pc' = "rotating"
  /\ UNCHANGED <<intensity, now, activeMenuOption, menuStartMillis,
                 blinkMillis, vDisp, vMux, vSnd, vAlarm, vEnc, vEnv, vObs>>

\* if (millis() - menuStartMillis > menuDelay) currentDisplayStatus = time;
MenuTimeout(here) ==
  /\ pc = here
  /\ currentDisplayStatus' =
       IF Elapsed(millis, menuStartMillis) > menuDelay
       THEN "time" ELSE currentDisplayStatus
  /\ pc' = "rotating"
  /\ UNCHANGED <<intensity, now, activeMenuOption, menuStartMillis,
                 blinkMillis, vDisp, vMux, vSnd, vAlarm, vEnc, vEnv, vObs>>

\* ------------------------------------------------------------------------
\* case displayStatus::time (lines 200-251)
\* ------------------------------------------------------------------------
TimeLed3 == SetLed3("t_led3", "t_digits")

TimeDigits == ShowDigits("t_digits", "t_colon")

\* a variant of the step below, which the properties must tell from it:
\* the colon is on in even seconds
TimeColonEven ==
  /\ pc = "t_colon"
  /\ colonOn' = (Second(now) % 2 = 0)
  /\ pc' = "t_encPos"
  /\ UNCHANGED <<intensity, now, vUI, led3On, digitValue, toDisplay, vMux,
                 vSnd, vAlarm, vEnc, vEnv, vObs>>

\* colonOn = (now.second() % 2 == 0) ? 0 : 1;
TimeColon ==
  /\ pc = "t_colon"
  /\ colonOn' = (Second(now) % 2 # 0)
  /\ pc' = "t_encPos"
  /\ UNCHANGED <<intensity, now, vUI, led3On, digitValue, toDisplay, vMux,
                 vSnd, vAlarm, vEnc, vEnv, vObs>>

TimeEncPos == EncTest("t_encPos", TRUE, "t_inc", "t_encNeg")

\* intensity ++;  /  intensity --;
IntensityStep(here, dir, next) ==
  /\ pc = here
  /\ intensity' = intensity + dir
  /\ adjusts' = Append(adjusts, dir)
  /\ pc' = next
  /\ UNCHANGED <<now, vUI, vDisp, vMux, vSnd, vAlarm, vEnc, vEnv, iterCase,
                 found, irqAfter, firesInMinute, pressActions>>

\* if (intensity > 10) intensity = 10;  /  if (intensity < 0) intensity = 0;
IntensityClamp(here, next) ==
  /\ pc = here
  /\ intensity' = IF intensity > maxIntensity THEN maxIntensity
                  ELSE IF intensity < 0 THEN 0 ELSE intensity
  /\ pc' = next
  /\ UNCHANGED <<now, vUI, vDisp, vMux, vSnd, vAlarm, vEnc, vEnv, vObs>>

\* encoderPos = 0;
TimeEncReset(here, next) ==
  /\ pc = here
  /\ encoderPos' = 0
  /\ irqAfter' = FALSE
  /\ pc' = next
  /\ UNCHANGED <<intensity, now, vUI, vDisp, vMux, vSnd, vAlarm, rotating,
                 A_set, B_set, vEnv, iterCase, found, adjusts,
                 firesInMinute, pressActions>>

TimeInc == IntensityStep("t_inc", 1, "t_incClamp")
TimeIncClamp == IntensityClamp("t_incClamp", "t_incReset")
TimeIncReset == TimeEncReset("t_incReset", "t_encNeg")
TimeEncNeg == EncTest("t_encNeg", FALSE, "t_dec", "t_alarm")
TimeDec == IntensityStep("t_dec", -1, "t_decClamp")
TimeDecClamp == IntensityClamp("t_decClamp", "t_decReset")
TimeDecReset == TimeEncReset("t_decReset", "t_alarm")

\* ------------------------------------------------------------------------
\* Variants of the program that the properties tell from it
\* ------------------------------------------------------------------------
\* a variant of the step below, which the properties must tell from it:
\* the alarm goes off whether or not it is active
AlarmDueUnarmed ==
  /\ Hour(now) = alarmHour
  /\ Minute(now) = alarmMinute
  /\ Second(now) = 0

\* further variants: the test leaves out the second, the minute, the hour
AlarmDueAnySecond ==
  /\ alarmActive
  /\ Hour(now) = alarmHour
  /\ Minute(now) = alarmMinute

AlarmDueAnyMinute ==
  /\ alarmActive
  /\ Hour(now) = alarmHour
  /\ Second(now) = 0

AlarmDueAnyHour ==
  /\ alarmActive
  /\ Minute(now) = alarmMinute
  /\ Second(now) = 0

\* the condition of `if (alarmActive && now.hour() == alarmHour && ...)'
AlarmDue ==
  /\ alarmActive
  /\ Hour(now) = alarmHour
  /\ Minute(now) = alarmMinute
  /\ Second(now) = 0

\* a variant of the step below, which the properties must tell from it:
\* the melody is taken up at the note where the last playback stopped
SelectMelodyResumes(m) ==
  /\ currentDisplayStatus' = "playingMelody"
  /\ melody' = m
  /\ tempo' = TempoOf(m)
  /\ wholenote' = WholeNote(TempoOf(m))
  /\ currentNote' = currentNote
  /\ noteDuration' = 0

\* the melody set-up shared by the three entries into playingMelody, up to
\* noteDuration = 0
SelectMelody(m) ==
  /\ currentDisplayStatus' = "playingMelody"
  /\ melody' = m
  /\ tempo' = TempoOf(m)
  /\ wholenote' = WholeNote(TempoOf(m))
  /\ currentNote' = 0
  /\ noteDuration' = 0

\* the set-up with soundMillis = millis(), as one step where no store to a
\* display variable follows (lines 239-249)
StartMelody(m) ==
  /\ SelectMelody(m)
  /\ soundMillis' = millis

\* check if alarm must go off (lines 235-250)
TimeAlarm ==
  /\ pc = "t_alarm"
  /\ IF AlarmDue
     THEN /\ StartMelody("melody3")
          /\ firesInMinute' = Min(firesInMinute + 1, MaxCount)
     ELSE UNCHANGED <<currentDisplayStatus, melody, tempo, wholenote,
                      currentNote, noteDuration, soundMillis, firesInMinute>>
  /\ pc' = "rotating"
  /\ UNCHANGED <<intensity, now, activeMenuOption, menuStartMillis,
                 blinkMillis, vDisp, vMux, noteMillis, divider, speaker,
                 vAlarm, vEnc, vEnv, iterCase, found, adjusts, irqAfter,
                 pressActions>>

\* ------------------------------------------------------------------------
\* Blinking display of setTime and setAlarm (lines 254-279, 341-366)
\* ------------------------------------------------------------------------
blinkOn == 800
blinkPeriod == 1000

\* if (millis() - blinkMillis > 800): the test alone
BlinkTest(here, blank, show) ==
  /\ pc = here
  /\ pc' = IF Elapsed(millis, blinkMillis) > blinkOn THEN blank ELSE show
  /\ UNCHANGED <<intensity, now, vUI, vDisp, vMux, vSnd, vAlarm, vEnc, vEnv,
                 vObs>>

\* the for loop that blanks digitValue[0..3], one pass (i = 0, 1, 2, 3) a step
BlankDigits(here, next) ==
  /\ \E i \in 0..3 :
       /\ pc = InLoop(here, i)
       /\ digitValue' = [digitValue EXCEPT ![i + 1] = 0]
       /\ pc' = IF i = 3 THEN next ELSE InLoop(here, i + 1)
  /\ UNCHANGED <<intensity, now, vUI, colonOn, led3On, toDisplay, vMux, vSnd,
                 vAlarm, vEnc, vEnv, vObs>>

\* if (millis() - blinkMillis > 800) { blank the digits ... } else { show }
Blink(here, off, next) ==
  \/ BlinkTest(here, here \o "_blank", here \o "_show")
  \/ BlankDigits(here \o "_blank", off)
  \/ ShowDigits(here \o "_show", next)

\* colonOn = false;
BlinkColonOff(here, next) ==
  /\ pc = here
  /\ colonOn' = FALSE
  /\ pc' = next
  /\ UNCHANGED <<intensity, now, vUI, led3On, digitValue, toDisplay, vMux,
                 vSnd, vAlarm, vEnc, vEnv, vObs>>

\* if (millis() - blinkMillis > 1000) { blinkMillis = millis(); colonOn = true; }
BlinkRestart(here, next) ==
  /\ pc = here
  /\ IF Elapsed(millis, blinkMillis) > blinkPeriod
     THEN blinkMillis' = millis /\ colonOn' = TRUE
     ELSE UNCHANGED <<blinkMillis, colonOn>>
  /\ pc' = next
  /\ UNCHANGED <<intensity, now, currentDisplayStatus, activeMenuOption,
                 menuStartMillis, led3On, digitValue, toDisplay, vMux, vSnd,
                 vAlarm, vEnc, vEnv, vObs>>

\* ------------------------------------------------------------------------
\* case displayStatus::setTime (lines 252-305)
\* ------------------------------------------------------------------------
SetTimeLed3 == SetLed3("s_led3", "s_blink")
SetTimeBlink == Blink("s_blink", "s_colonOff", "s_encPos")
SetTimeColonOff == BlinkColonOff("s_colonOff", "s_blinkEnd")
SetTimeBlinkRestart == BlinkRestart("s_blinkEnd", "s_encPos")
SetTimeEncPos == EncTest("s_encPos", TRUE, "s_inc", "s_encNeg")

\* RTC.adjust(DateTime(now.unixtime() +/- 60)); encoderPos = 0;
\* menuStartMillis = millis();
AdjustClock(here, dir, next) ==
  /\ pc = here
  /\ rtc' = now + dir * 60
  /\ encoderPos' = 0
  /\ menuStartMillis' = millis
  /\ adjusts' = Append(adjusts, dir)
  /\ irqAfter' = FALSE
  /\ firesInMinute' = IF Minute(rtc') # Minute(rtc) \/ Hour(rtc') # Hour(rtc)
                      THEN 0 ELSE firesInMinute
  /\ pc' = next
  /\ UNCHANGED <<intensity, now, currentDisplayStatus, activeMenuOption,
                 blinkMillis, vDisp, vMux, vSnd, vAlarm, rotating, A_set,
                 B_set, millis, pushButton, knob, rtcTicks, edges, timerTicks,
                 iterCase, found, pressActions>>

SetTimeInc == AdjustClock("s_inc", 1, "s_encNeg")
SetTimeEncNeg == EncTest("s_encNeg", FALSE, "s_dec", "s_timeout")
SetTimeDec == AdjustClock("s_dec", -1, "s_timeout")
SetTimeTimeout == MenuTimeout("s_timeout")

\* ------------------------------------------------------------------------
\* case displayStatus::menu (lines 306-338)
\* ------------------------------------------------------------------------
\* the for loop over menuText[activeMenuOption], one pass (digit = 0, 1, 2,
\* 3) a step
MenuShow ==
  /\ \E digit \in 0..3 :
       /\ pc = InLoop("m_digits", digit)
       /\ digitValue' = MenuDigit(activeMenuOption, digit, digitValue)
       /\ pc' = IF digit = 3 THEN "m_digit3"
                ELSE InLoop("m_digits", digit + 1)
  /\ UNCHANGED <<intensity, now, vUI, colonOn, led3On, toDisplay, vMux, vSnd,
                 vAlarm, vEnc, vEnv, vObs>>

\* if (activeMenuOption == 4) digitValue[3] = alarmActive ? symbol[1] : symbol[0];
MenuDigit3 ==
  /\ pc = "m_digit3"
  /\ digitValue' =
       IF activeMenuOption = 4
       THEN [digitValue EXCEPT ![4] = IF alarmActive THEN Symbol(1)
                                      ELSE Symbol(0)]
       ELSE digitValue
  /\ pc' = "m_encPos"
  /\ UNCHANGED <<intensity, now, vUI, colonOn, led3On, toDisplay, vMux, vSnd,
                 vAlarm, vEnc, vEnv, vObs>>

MenuEncPos == EncTest("m_encPos", TRUE, "m_inc", "m_encNeg")

\* activeMenuOption ++ / -- with wrap-around
NextOption(opt, dir) ==
  IF dir > 0
  THEN (IF opt + 1 > menuItemCount - 1 THEN 0 ELSE opt + 1)
  ELSE (IF opt - 1 < 0 THEN menuItemCount - 1 ELSE opt - 1)

\* activeMenuOption ++/--; wrap; encoderPos = 0; menuStartMillis = millis();
MenuStep(here, dir, next) ==
  /\ pc = here
  /\ activeMenuOption' = NextOption(activeMenuOption, dir)
  /\ encoderPos' = 0
  /\ menuStartMillis' = millis
  /\ adjusts' = Append(adjusts, dir)
  /\ irqAfter' = FALSE
  /\ pc' = next
  /\ UNCHANGED <<intensity, now, currentDisplayStatus, blinkMillis, vDisp,
                 vMux, vSnd, vAlarm, rotating, A_set, B_set, vEnv, iterCase,
                 found, firesInMinute, pressActions>>

MenuInc == MenuStep("m_inc", 1, "m_encNeg")
MenuEncNeg == EncTest("m_encNeg", FALSE, "m_dec", "m_timeout")
MenuDec == MenuStep("m_dec", -1, "m_timeout")
MenuMenuTimeout == MenuTimeout("m_timeout")

\* ------------------------------------------------------------------------
\* case displayStatus::setAlarm (lines 339-402)
\* ------------------------------------------------------------------------
SetAlarmLed3 == SetLed3("a_led3", "a_blink")
SetAlarmBlink == Blink("a_blink", "a_colonOff", "a_encPos")
SetAlarmColonOff == BlinkColonOff("a_colonOff", "a_blinkEnd")
SetAlarmBlinkRestart == BlinkRestart("a_blinkEnd", "a_encPos")
SetAlarmEncPos == EncTest("a_encPos", TRUE, "a_inc", "a_encNeg")

\* a variant of the operator below, which the properties must tell from it:
\* the minute wraps without carrying into the hour
NextAlarmNoCarry(h, m, dir) ==
  IF dir > 0
  THEN (IF m + 1 >= 60 THEN <<h, 0>> ELSE <<h, m + 1>>)
  ELSE (IF m - 1 < 0 THEN <<h, 59>> ELSE <<h, m - 1>>)

\* alarmMinute++ / -- with rollover into alarmHour: <<alarmHour, alarmMinute>>
NextAlarm(h, m, dir) ==
  IF dir > 0
  THEN (IF m + 1 >= 60
        THEN <<(IF h + 1 >= 24 THEN 0 ELSE h + 1), 0>>
        ELSE <<h, m + 1>>)
  ELSE (IF m - 1 < 0
        THEN <<(IF h - 1 < 0 THEN 23 ELSE h - 1), 59>>
        ELSE <<h, m - 1>>)

\* alarmMinute++/--; rollover; encoderPos = 0; menuStartMillis = millis();
AlarmStep(here, dir, next) ==
  /\ pc = here
  /\ alarmHour' = NextAlarm(alarmHour, alarmMinute, dir)[1]
  /\ alarmMinute' = NextAlarm(alarmHour, alarmMinute, dir)[2]
  /\ encoderPos' = 0
  /\ menuStartMillis' = millis
  /\ adjusts' = Append(adjusts, dir)
  /\ irqAfter' = FALSE
  /\ pc' = next
  /\ UNCHANGED <<intensity, now, currentDisplayStatus, activeMenuOption,
                 blinkMillis, vDisp, vMux, vSnd, alarmActive, rotating,
                 A_set, B_set, vEnv, iterCase, found, firesInMinute,
                 pressActions>>

SetAlarmInc == AlarmStep("a_inc", 1, "a_encNeg")
SetAlarmEncNeg == EncTest("a_encNeg", FALSE, "a_dec", "a_timeout")
SetAlarmDec == AlarmStep("a_dec", -1, "a_timeout")
SetAlarmTimeout == MenuTimeout("a_timeout")

\* ------------------------------------------------------------------------
\* case displayStatus::playingMelody (lines 403-450)
\* ------------------------------------------------------------------------
PlayDigits == ShowDigits("p_digits", "p_led3")

\* led3On = (now.second() % 2 == 0) ? 0 : 1;
PlayLed3 ==
  /\ pc = "p_led3"
  /\ led3On' = (Second(now) % 2 # 0)
  /\ pc' = "p_colon"
  /\ UNCHANGED <<intensity, now, vUI, colonOn, digitValue, toDisplay, vMux,
                 vSnd, vAlarm, vEnc, vEnv, vObs>>

\* colonOn = !led3On;
PlayColon ==
  /\ pc = "p_colon"
  /\ colonOn' = ~led3On
  /\ pc' = "p_note"
  /\ UNCHANGED <<intensity, now, vUI, led3On, digitValue, toDisplay, vMux,
                 vSnd, vAlarm, vEnc, vEnv, vObs>>

\* check if we need to change note (lines 421-441)
PlayNote ==
  /\ pc = "p_note"
  /\ IF Elapsed(millis, noteMillis) > noteDuration
     THEN LET d == Deref(melody, currentNote + 1)
              nd == NoteDuration(wholenote, d, noteDuration)
          IN /\ divider' = d
             /\ noteDuration' = nd
             /\ noteMillis' = millis
             /\ speaker' = [cmd |-> "tone",
                            freq |-> Deref(melody, currentNote),
                            dur |-> ToneDuration(nd)]
             /\ currentNote' = IF Deref(melody, currentNote + 2) = END
                               THEN 0 ELSE currentNote + 2
     ELSE UNCHANGED <<divider, noteDuration, noteMillis, speaker, currentNote>>
  /\ pc' = "p_max"
  /\ UNCHANGED <<intensity, now, vUI, vDisp, vMux, soundMillis, melody,
                 tempo, wholenote, vAlarm, vEnc, vEnv, vObs>>

NoTone == [cmd |-> "noTone", freq |-> 0, dur |-> 0]

\* a variant of the step below, which the properties must tell from it:
\* the play limit ends playback without silencing the speaker
PlayMaxKeepsTone ==
  /\ pc = "p_max"
  /\ IF Elapsed(millis, soundMillis) > maxPlayDuration
     THEN currentDisplayStatus' = "time" /\ UNCHANGED speaker
     ELSE UNCHANGED <<speaker, currentDisplayStatus>>
  /\ pc' = "rotating"
  /\ UNCHANGED <<intensity, now, activeMenuOption, menuStartMillis,
                 blinkMillis, vDisp, vMux, noteMillis, soundMillis, melody,
                 currentNote, divider, noteDuration, tempo, wholenote,
                 vAlarm, vEnc, vEnv, vObs>>

\* check if max song duration reached (lines 443-449)
PlayMax ==
  /\ pc = "p_max"
  /\ IF Elapsed(millis, soundMillis) > maxPlayDuration
     THEN speaker' = NoTone /\ currentDisplayStatus' = "time"
     ELSE UNCHANGED <<speaker, currentDisplayStatus>>
  /\ pc' = "rotating"
  /\ UNCHANGED <<intensity, now, activeMenuOption, menuStartMillis,
                 blinkMillis, vDisp, vMux, noteMillis, soundMillis, melody,
                 currentNote, divider, noteDuration, tempo, wholenote,
                 vAlarm, vEnc, vEnv, vObs>>

\* ------------------------------------------------------------------------
\* After the switch (lines 453-531)
\* ------------------------------------------------------------------------
\* rotating = true;
Rotating ==
  /\ pc = "rotating"
  /\ rotating' = TRUE
  /\ found' = <<>>
  /\ adjusts' = <<>>
  /\ pc' = "button"
  /\ UNCHANGED <<intensity, now, vUI, vDisp, vMux, vSnd, vAlarm, encoderPos,
                 A_set, B_set, vEnv, iterCase, irqAfter, firesInMinute,
                 pressActions>>

\* a variant of the operator below, which the properties must tell from it:
\* the toggle option leaves the alarm as it is
ToggleKeeps(active) == active

\* alarmActive = !alarmActive; (line 522)
ToggleAlarm(active) == ~active

\* a variant of the condition below, which the properties must tell from it:
\* a press is accepted from 500 ms on
ButtonAcceptedAtLimit ==
  /\ pushButton = "LOW"
  /\ Elapsed(millis, menuStartMillis) >= buttonDelay

\* if (digitalRead(pushButton) == LOW) if (millis() - menuStartMillis > 500)
ButtonAccepted ==
  /\ pushButton = "LOW"
  /\ Elapsed(millis, menuStartMillis) > buttonDelay

\* handle push-button of the encoder (lines 455-531): the tests, the restart
\* of menuStartMillis and the statements of the branch taken up to its first
\* store to a display variable or its next call of millis(); those are the
\* steps ButtonColon and ButtonLed3 (state time), ButtonSound (a melody
\* chosen) and ButtonColonOn (state menu)
Button ==
  /\ pc = "button"
  /\ IF ButtonAccepted
     THEN /\ menuStartMillis' = millis
          /\ pressActions' = Min(pressActions + 1, MaxCount)
          /\ CASE currentDisplayStatus = "time" ->
                    /\ currentDisplayStatus' = "menu"
                    /\ pc' = "b_colon"
                    /\ UNCHANGED <<colonOn, soundMillis, melody, currentNote,
                                   noteDuration, tempo, wholenote, speaker,
                                   alarmActive>>
               [] currentDisplayStatus \in {"setAlarm", "setTime"} ->
                    /\ currentDisplayStatus' = "time"
                    /\ pc' = "begin"
                    /\ UNCHANGED <<colonOn, soundMillis, melody, currentNote,
                                   noteDuration, tempo, wholenote, speaker,
                                   alarmActive>>
               [] currentDisplayStatus = "playingMelody" ->
                    /\ speaker' = NoTone
                    /\ currentDisplayStatus' = "time"
                    /\ pc' = "begin"
                    /\ UNCHANGED <<colonOn, soundMillis, melody, currentNote,
                                   noteDuration, tempo, wholenote,
                                   alarmActive>>
               [] currentDisplayStatus = "menu" /\ activeMenuOption = 0 ->
                    /\ SelectMelody("melody2")
                    /\ pc' = "b_sound"
                    /\ UNCHANGED <<colonOn, soundMillis, speaker, alarmActive>>
               [] currentDisplayStatus = "menu" /\ activeMenuOption = 1 ->
                    /\ SelectMelody("melody1")
                    /\ pc' = "b_sound"
                    /\ UNCHANGED <<colonOn, soundMillis, speaker, alarmActive>>
               [] currentDisplayStatus = "menu" /\ activeMenuOption = 2 ->
                    /\ currentDisplayStatus' = "setTime"
                    /\ pc' = "b_colonOn"
                    /\ UNCHANGED <<colonOn, soundMillis, melody, currentNote,
                                   noteDuration, tempo, wholenote, speaker,
                                   alarmActive>>
               [] currentDisplayStatus = "menu" /\ activeMenuOption = 3 ->
                    /\ currentDisplayStatus' = "setAlarm"
                    /\ pc' = "b_colonOn"
                    /\ UNCHANGED <<colonOn, soundMillis, melody, currentNote,
                                   noteDuration, tempo, wholenote, speaker,
                                   alarmActive>>
               [] currentDisplayStatus = "menu" /\ activeMenuOption = 4 ->
                    /\ currentDisplayStatus' = "time"
                    /\ alarmActive' = ToggleAlarm(alarmActive)
                    /\ pc' = "b_colonOn"
                    /\ UNCHANGED <<colonOn, soundMillis, melody, currentNote,
                                   noteDuration, tempo, wholenote, speaker>>
               [] OTHER ->
                    /\ pc' = "begin"
                    /\ UNCHANGED <<currentDisplayStatus, colonOn, soundMillis,
                                   melody, currentNote, noteDuration, tempo,
                                   wholenote, speaker, alarmActive>>
     ELSE /\ pc' = "begin"
          /\ UNCHANGED <<menuStartMillis, pressActions, currentDisplayStatus,
                         colonOn, soundMillis, melody, currentNote,
                         noteDuration, tempo, wholenote, speaker, alarmActive>>
  /\ UNCHANGED <<intensity, now, activeMenuOption, blinkMillis, led3On,
                 digitValue, toDisplay, vMux, noteMillis, divider, alarmHour,
                 alarmMinute, vEnc, vEnv, iterCase, found, adjusts, irqAfter,
                 firesInMinute>>

\* colonOn = false; (line 464)
ButtonColon ==
  /\ pc = "b_colon"
  /\ colonOn' = FALSE
  /\ pc' = "b_led3"
  /\ UNCHANGED <<intensity, now, vUI, led3On, digitValue, toDisplay, vMux,
                 vSnd, vAlarm, vEnc, vEnv, vObs>>

\* soundMillis = millis(); (lines 491, 506)
ButtonSound ==
  /\ pc = "b_sound"
  /\ soundMillis' = millis
  /\ pc' = "b_colonOn"
  /\ UNCHANGED <<intensity, now, vUI, vDisp, vMux, noteMillis, melody,
                 currentNote, divider, noteDuration, tempo, wholenote,
                 speaker, vAlarm, vEnc, vEnv, vObs>>

\* colonOn = true; (lines 492, 507, 512, 517, 523)
ButtonColonOn ==
  /\ pc = "b_colonOn"
  /\ colonOn' = TRUE
  /\ pc' = "begin"
  /\ UNCHANGED <<intensity, now, vUI, led3On, digitValue, toDisplay, vMux,
                 vSnd, vAlarm, vEnc, vEnv, vObs>>

\* led3On = false; (line 465)
ButtonLed3 ==
  /\ pc = "b_led3"
  /\ led3On' = FALSE
  /\ pc' = "begin"
  /\ UNCHANGED <<intensity, now, vUI, colonOn, digitValue, toDisplay, vMux,
                 vSnd, vAlarm, vEnc, vEnv, vObs>>

\* ------------------------------------------------------------------------
\* Timer interrupt (lines 534-562)
\* ------------------------------------------------------------------------
\* the positions of loop() inside the for loops at `loops'
LoopPcs(loops) == {InLoop(here, done) : here \in loops, done \in 0..3}

\* the positions of loop() from which stores to the display variables lie
\* ahead with no call in between: case time up to the colon, the blanking
\* branch of the blink up to the colon, the showing branch, the menu text,
\* case playingMelody up to the colon
TimeStores == {"t_led3", "t_colon"} \cup LoopPcs({"t_digits"})
BlankStores ==
  {"s_colonOff", "a_colonOff"} \cup LoopPcs({"s_blink_blank", "a_blink_blank"})
ShowStores == LoopPcs({"s_blink_show", "a_blink_show"})
MenuStores == {"m_digit3"} \cup LoopPcs({"m_digits"})
PlayStores == {"p_led3", "p_colon"} \cup LoopPcs({"p_digits"})

\* the passes the for loop loop() is in has made
Passed ==
  CHOOSE done \in 0..3 :
    \E here \in {"t_digits", "p_digits", "s_blink_show", "a_blink_show"} :
      pc = InLoop(here, done)

\* digitValue as the stores ahead leave it
DigitsAhead ==
  IF pc = "t_led3" THEN DigitLoop(3, toDisplay, digitValue)
  ELSE IF pc \in LoopPcs({"t_digits", "p_digits", "s_blink_show",
                          "a_blink_show"})
  THEN DigitLoop(3 - Passed, toDisplay, digitValue)
  ELSE IF pc \in BlankStores THEN <<0, 0, 0, 0>>
  ELSE IF pc \in MenuStores THEN MenuDigits(activeMenuOption, alarmActive)
  ELSE digitValue

\* what `flag ? code : 0x0` may come to when flag holds the byte b:
\* code if b is not zero, or b shifted to the place of code
RawFlag(b, code) == {IF b # 0 THEN code ELSE 0, (b * code) % 256}

\* the bytes colonOn may hold while `!led3On` is worked out from the byte b
\* of the second: b itself, its complement, b with its lowest bit flipped
RawNot(b) == {b, 255 - b, IF b % 2 = 0 THEN b + 1 ELSE b - 1}

\* what iProcess may take for digitValue[drawDigit]
DigitRead == {digitValue[drawDigit + 1], DigitsAhead[drawDigit + 1]}

\* what iProcess may take for (colonOn ? colonCode : 0x0)
ColonRead ==
  {IF colonOn THEN colonCode ELSE 0}
  \cup (IF pc \in TimeStores
        THEN {IF Second(now) % 2 # 0 THEN colonCode ELSE 0}
             \cup RawFlag(Second(now), colonCode)
        ELSE {})
  \cup (IF pc \in BlankStores \cup {"b_colon"} THEN {0} ELSE {})
  \cup (IF pc = "b_colonOn" THEN {colonCode} ELSE {})
  \cup (IF pc \in PlayStores
        THEN {IF Second(now) % 2 # 0 THEN 0 ELSE colonCode}
             \cup UNION {RawFlag(b, colonCode) : b \in RawNot(Second(now))}
        ELSE {})

\* what iProcess may take for (led3On ? led3Code : 0x0)
LampRead ==
  {IF led3On THEN led3Code ELSE 0}
  \cup (IF pc = "t_led3"
        THEN {IF alarmActive THEN led3Code ELSE 0}
        ELSE {})
  \cup (IF pc \in {"b_colon", "b_led3"} THEN {0} ELSE {})
  \cup (IF pc \in PlayStores \ {"p_colon"}
        THEN {IF Second(now) % 2 # 0 THEN led3Code ELSE 0}
             \cup RawFlag(Second(now), led3Code)
        ELSE {})

\* the two bytes shifted out on a lit sub-tick
LitFrame(value, colon, lamp) ==
  [lit |-> TRUE,
   word2 |-> NotByte(value),
   word1 |-> NotByte(BitOr(BitOr(digitCode[drawDigit + 1], colon), lamp))]

\* a variant of the frame below, which the properties must tell from it:
\* a blank sub-tick selects no digit
BlankFrameNoDigit ==
  [lit |-> FALSE,
   word2 |-> NotByte(0),
   word1 |-> NotByte(0)]

\* the two bytes shifted out on a blank sub-tick
BlankFrame ==
  [lit |-> FALSE,
   word2 |-> NotByte(0),
   word1 |-> NotByte(digitCode[drawDigit + 1])]

\* if (stepCounter <= intensity)
Lit == stepCounter <= intensity

iProcess ==
  /\ IF Lit
     THEN \E value \in DigitRead, colon \in ColonRead, lamp \in LampRead :
            frame' = LitFrame(value, colon, lamp)
     ELSE frame' = BlankFrame
  /\ IF stepCounter + 1 > maxStep
     THEN /\ drawDigit' = IF drawDigit = 3 THEN 0 ELSE drawDigit + 1
          /\ stepCounter' = 0
     ELSE /\ stepCounter' = stepCounter + 1
          /\ UNCHANGED drawDigit
  /\ LET lit == litTicks + (IF Lit THEN 1 ELSE 0)
     IN IF stepCounter + 1 > maxStep
        THEN litTicks' = 0 /\ lastDwell' = lit
        ELSE litTicks' = lit /\ UNCHANGED lastDwell
  /\ UNCHANGED <<pc, intensity, now, vUI, vDisp, vSnd, vAlarm, vEnc, millis,
                 rtc, pushButton, knob, rtcTicks, edges, vObs>>

\* ------------------------------------------------------------------------
\* Encoder interrupts (lines 598-626); level is what digitalRead returns
\* after the debounce wait (TRUE = HIGH)
\* ------------------------------------------------------------------------
\* a variant of the handler below, which the properties must tell from it:
\* every accepted change of line A with B low counts, falling or rising
doEncoderAnyEdge(level) ==
  /\ IF level # A_set
     THEN /\ A_set' = ~A_set
          /\ encoderPos' = IF ~B_set THEN encoderPos + 1 ELSE encoderPos
          /\ rotating' = FALSE
     ELSE UNCHANGED <<A_set, encoderPos, rotating>>
  /\ irqAfter' = (irqAfter \/ encoderPos' # encoderPos)
  /\ UNCHANGED <<pc, intensity, now, vUI, vDisp, vMux, vSnd, vAlarm, B_set,
                 millis, rtc, pushButton, knob, rtcTicks, timerTicks, iterCase,
                 found, adjusts, firesInMinute, pressActions>>

doEncoderA(level) ==
  /\ IF level # A_set
     THEN /\ A_set' = ~A_set
          /\ encoderPos' = IF ~A_set /\ ~B_set THEN encoderPos + 1
                           ELSE encoderPos
          /\ rotating' = FALSE
     ELSE UNCHANGED <<A_set, encoderPos, rotating>>
  /\ irqAfter' = (irqAfter \/ encoderPos' # encoderPos)
  /\ UNCHANGED <<pc, intensity, now, vUI, vDisp, vMux, vSnd, vAlarm, B_set,
                 millis, rtc, pushButton, knob, rtcTicks, timerTicks, iterCase,
                 found, adjusts, firesInMinute, pressActions>>

\* a variant of the handler below, which the properties must tell from it:
\* every accepted change of line B with A low counts, falling or rising
doEncoderBAnyEdge(level) ==
  /\ IF level # B_set
     THEN /\ B_set' = ~B_set
          /\ encoderPos' = IF ~A_set THEN encoderPos - 1 ELSE encoderPos
          /\ rotating' = FALSE
     ELSE UNCHANGED <<B_set, encoderPos, rotating>>
  /\ irqAfter' = (irqAfter \/ encoderPos' # encoderPos)
  /\ UNCHANGED <<pc, intensity, now, vUI, vDisp, vMux, vSnd, vAlarm, A_set,
                 millis, rtc, pushButton, knob, rtcTicks, timerTicks, iterCase,
                 found, adjusts, firesInMinute, pressActions>>

doEncoderB(level) ==
  /\ IF level # B_set
     THEN /\ B_set' = ~B_set
          /\ encoderPos' = IF ~B_set /\ ~A_set THEN encoderPos - 1
                           ELSE encoderPos
          /\ rotating' = FALSE
     ELSE UNCHANGED <<B_set, encoderPos, rotating>>
  /\ irqAfter' = (irqAfter \/ encoderPos' # encoderPos)
  /\ UNCHANGED <<pc, intensity, now, vUI, vDisp, vMux, vSnd, vAlarm, A_set,
                 millis, rtc, pushButton, knob, rtcTicks, timerTicks, iterCase,
                 found, adjusts, firesInMinute, pressActions>>

\* ------------------------------------------------------------------------
\* Environment
\* ------------------------------------------------------------------------
\* the timer fires; at most maxTicks times
TimerIrq(maxTicks) ==
  /\ timerTicks < maxTicks
  /\ timerTicks' = timerTicks + 1
  /\ iProcess

\* line A (B) changes or bounces and its handler runs; the lines change at
\* most maxEdges times
EdgeA(maxEdges) ==
  \E level \in BOOLEAN :
    /\ level # A_set => edges < maxEdges
    /\ edges' = IF level # A_set THEN edges + 1 ELSE edges
    /\ doEncoderA(level)
    /\ Abs(encoderPos') <= MaxEnc

EdgeB(maxEdges) ==
  \E level \in BOOLEAN :
    /\ level # B_set => edges < maxEdges
    /\ edges' = IF level # B_set THEN edges + 1 ELSE edges
    /\ doEncoderB(level)
    /\ Abs(encoderPos') <= MaxEnc

\* the user starts to turn the knob steadily, from its rest position with
\* both lines low
StartTurning ==
  /\ knob = "free"
  /\ edges = 0
  /\ ~A_set /\ ~B_set
  /\ knob' \in {"forward", "backward"}
  /\ UNCHANGED <<pc, intensity, now, vUI, vDisp, vMux, vSnd, vAlarm, vEnc,
                 millis, rtc, pushButton, rtcTicks, edges, timerTicks, vObs>>

\* the knob turns on by a quarter of a cycle without bouncing, and the
\* handler of the line that changes runs: forward the lines change in the
\* order A rises, B rises, A falls, B falls, backward in the order B rises,
\* A rises, B falls, A falls; at most maxEdges changes
Turn(maxEdges) ==
  /\ knob \in {"forward", "backward"}
  /\ edges < maxEdges
  /\ edges' = edges + 1
  /\ IF (knob = "forward") = (A_set = B_set)
     THEN doEncoderA(~A_set)
     ELSE doEncoderB(~B_set)

\* millis() advances by step, up to max
Tick(step, max) ==
  /\ millis + step <= max
  /\ millis' = millis + step
  /\ UNCHANGED <<pc, intensity, now, vUI, vDisp, vMux, vSnd, vAlarm, vEnc,
                 rtc, pushButton, knob, rtcTicks, edges, timerTicks, vObs>>

\* the RTC chip counts one second; at most maxTicks times
RtcTick(maxTicks) ==
  /\ rtcTicks < maxTicks
  /\ rtc' = rtc + 1
  /\ rtcTicks' = rtcTicks + 1
  /\ firesInMinute' = IF Minute(rtc') # Minute(rtc) THEN 0 ELSE firesInMinute
  /\ UNCHANGED <<pc, intensity, now, vUI, vDisp, vMux, vSnd, vAlarm, vEnc,
                 millis, pushButton, knob, edges, timerTicks, iterCase, found,
                 adjusts, irqAfter, pressActions>>

\* the push button line goes low (pressed) or high (released)
ButtonPress ==
  /\ pushButton = "HIGH"
  /\ pushButton' = "LOW"
  /\ pressActions' = 0
  /\ UNCHANGED <<pc, intensity, now, vUI, vDisp, vMux, vSnd, vAlarm, vEnc,
                 millis, rtc, knob, rtcTicks, edges, timerTicks, iterCase,
                 found, adjusts, irqAfter, firesInMinute>>

ButtonRelease ==
  /\ pushButton = "LOW"
  /\ pushButton' = "HIGH"
  /\ pressActions' = 0
  /\ UNCHANGED <<pc, intensity, now, vUI, vDisp, vMux, vSnd, vAlarm, vEnc,
                 millis, rtc, knob, rtcTicks, edges, timerTicks, iterCase,
                 found, adjusts, irqAfter, firesInMinute>>

\* ------------------------------------------------------------------------
\* The steps of loop(), by the case of the switch
\* ------------------------------------------------------------------------
LoopEnds ==
  \/ Begin \/ Rotating
  \/ Button \/ ButtonColon \/ ButtonLed3 \/ ButtonSound \/ ButtonColonOn

TimeIdle ==
  \/ TimeLed3 \/ TimeDigits \/ TimeColon \/ TimeEncPos \/ TimeEncNeg
  \/ TimeAlarm
TimeTurn ==
  \/ TimeInc \/ TimeIncClamp \/ TimeIncReset
  \/ TimeDec \/ TimeDecClamp \/ TimeDecReset

SetTimeIdle ==
  \/ SetTimeLed3 \/ SetTimeBlink \/ SetTimeColonOff \/ SetTimeBlinkRestart
  \/ SetTimeEncPos \/ SetTimeEncNeg \/ SetTimeTimeout
SetTimeTurn == SetTimeInc \/ SetTimeDec

MenuIdle ==
  \/ MenuShow \/ MenuDigit3 \/ MenuEncPos \/ MenuEncNeg \/ MenuMenuTimeout
MenuTurn == MenuInc \/ MenuDec

SetAlarmIdle ==
  \/ SetAlarmLed3 \/ SetAlarmBlink \/ SetAlarmColonOff
  \/ SetAlarmBlinkRestart
  \/ SetAlarmEncPos \/ SetAlarmEncNeg \/ SetAlarmTimeout
SetAlarmTurn == SetAlarmInc \/ SetAlarmDec

Playing == PlayDigits \/ PlayLed3 \/ PlayColon \/ PlayNote \/ PlayMax

\* the whole of loop()
Loop ==
  \/ LoopEnds
  \/ TimeIdle \/ TimeTurn
  \/ SetTimeIdle \/ SetTimeTurn
  \/ MenuIdle \/ MenuTurn
  \/ SetAlarmIdle \/ SetAlarmTurn
  \/ Playing

\* ------------------------------------------------------------------------
\* Specifications
\* ------------------------------------------------------------------------
\* the RTC reads 06:59:59 when the sketch starts, one second before the
\* default alarm time
StartTime == ClockAt(6, 59, 59)

\* The clock as built, the knob and the button in the user's hands.
Init == Setup(1, 0, FALSE, StartTime)

EncoderA == EdgeA(MaxEdges)
EncoderB == EdgeB(MaxEdges)
ClockTick == Tick(TickMillis, MaxMillis)

Next ==
  \/ Loop
  \/ EncoderA \/ EncoderB
  \/ ButtonPress \/ ButtonRelease
  \/ ClockTick

Spec == Init /\ [][Next]_vars

\* The alarm about to go off or not: the alarm off as at power-up, the menu
\* at a melody, at set-time, at set-alarm or at toggle-alarm, where the
\* button switches the alarm on; the battery-backed RTC one second before
\* the alarm time, at it (and then one second past it), an hour past it or
\* a minute past it; the button, one second of the RTC and one timer
\* interrupt; the knob left alone.
RingTimes ==
  {StartTime, ClockAt(7, 0, 0), ClockAt(8, 0, 0), ClockAt(7, 1, 0)}

InitRing ==
  \/ \E option \in {0, 2, 3} : Setup(1, option, FALSE, StartTime)
  \/ \E start \in RingTimes : Setup(1, menuItemCount - 1, FALSE, start)

LoopPlay == LoopEnds \/ TimeIdle \/ MenuIdle \/ Playing
LoopRing == LoopPlay \/ SetTimeIdle \/ SetAlarmIdle

SecondTick == Tick(CoarseTick, MaxMillis)
RtcSecond == RtcTick(MaxRtcTicks)
TimerOnce == TimerIrq(OneIrq)

NextRing ==
  \/ LoopRing
  \/ ButtonPress \/ ButtonRelease
  \/ SecondTick
  \/ RtcSecond
  \/ TimerOnce

SpecRing == InitRing /\ [][NextRing]_vars

\* Every input and interrupt at once, each a little: the menu at set-time,
\* at set-alarm or at toggle-alarm (one click away from the melodies), the
\* RTC at the default alarm time, one click of the knob, one timer interrupt,
\* and one long wait that passes the inactivity limit.
AlarmTime == ClockAt(7, 0, 0)

InitAll ==
  \E option \in 2 .. menuItemCount - 1 : Setup(1, option, FALSE, AlarmTime)

ClickA == EdgeA(OneEdge)
ClickB == EdgeB(OneEdge)
ShortTick == Tick(CoarseTick, ShortMillis)
LongWait == Tick(PlayTick, IdleMillis)

NextAll ==
  \/ Loop
  \/ ClickA \/ ClickB
  \/ ButtonPress \/ ButtonRelease
  \/ ShortTick
  \/ LongWait
  \/ TimerOnce

SpecAll == InitAll /\ [][NextAll]_vars

\* Long enough for the inactivity limit to pass: the menu at set-time or at
\* set-alarm, one click of the knob, and a wait of just the limit before or
\* after a second has passed.
InitIdle == \E option \in {2, 3} : Setup(1, option, FALSE, StartTime)

IdleWait == Tick(menuDelay, IdleMillis)

NextIdle ==
  \/ Loop
  \/ ClickA \/ ClickB
  \/ ButtonPress \/ ButtonRelease
  \/ SecondTick
  \/ IdleWait

SpecIdle == InitIdle /\ [][NextIdle]_vars

\* The display multiplexer at the brightness of power-up, the clock showing
\* the time.
Timer == TimerIrq(MaxIrqs)

NextMux ==
  \/ Begin \/ TimeIdle \/ Rotating \/ Button
  \/ Timer
  \/ RtcSecond

SpecMux == Init /\ [][NextMux]_vars

\* Playback over more than a minute, the knob left alone; the loop keeps
\* running and time keeps passing.
LeadTick == Tick(CoarseTick, PlayLead)
LongTick == Tick(PlayTick, PlayMillis)

NextPlay ==
  \/ LoopPlay
  \/ ButtonPress \/ ButtonRelease
  \/ LeadTick
  \/ LongTick

SpecPlay ==
  /\ Init
  /\ [][NextPlay]_vars
  /\ WF_vars(LoopPlay)
  /\ WF_vars(LongTick)

\* Setting the alarm: the alarm time at the ends of the day, at the end of
\* an hour and at its default, the menu at set-time or at set-alarm, the
\* knob turned one click forth and one click back.
AlarmTimes == {<<0, 0>>, <<7, 0>>, <<7, 59>>, <<23, 59>>}

InitSetAlarm ==
  \E option \in {2, 3}, t \in AlarmTimes :
    SetupAt(1, option, FALSE, StartTime, t[1], t[2])

TurnA == EdgeA(TurnEdges)
TurnB == EdgeB(TurnEdges)

NextSetAlarm ==
  \/ Loop
  \/ TurnA \/ TurnB
  \/ ButtonPress \/ ButtonRelease
  \/ SecondTick

SpecSetAlarm == InitSetAlarm /\ [][NextSetAlarm]_vars

\* Switching the alarm on and off again: the menu at toggle-alarm, the
\* button pressed four times half a second apart or more, the knob left
\* alone.
InitToggle == Setup(1, menuItemCount - 1, FALSE, StartTime)

PressTick == Tick(CoarseTick, ToggleMillis)

NextToggle ==
  \/ Begin \/ Rotating
  \/ Button \/ ButtonColon \/ ButtonLed3 \/ ButtonColonOn
  \/ TimeIdle \/ MenuIdle
  \/ ButtonPress \/ ButtonRelease
  \/ PressTick

SpecToggle == InitToggle /\ [][NextToggle]_vars

\* Playing note by note: a melody started from the menu or by the alarm,
\* time passing in quarters of a second, long enough for each track to
\* start over.
InitNotes ==
  \E option \in {0, 1, menuItemCount - 1} :
    Setup(1, option, FALSE, StartTime)

QuarterTick == Tick(NoteTick, NoteMillis)

NextNotes ==
  \/ LoopPlay
  \/ ButtonPress \/ ButtonRelease
  \/ QuarterTick
  \/ RtcSecond

SpecNotes == InitNotes /\ [][NextNotes]_vars

\* The knob turned steadily through more than two cycles of its lines while
\* loop() does not get to run; the display timer goes on.
SteadyTurn == Turn(SteadyEdges)

NextTurn == StartTurning \/ SteadyTurn \/ Timer

SpecTurn == Init /\ [][NextTurn]_vars

\* Dimming the display: the clock showing the time, the knob turned up to
\* three edges either way, the display timer through a dwell and the start
\* of the next.
Dwell == TimerIrq(DimIrqs)

NextDim ==
  \/ Begin \/ TimeIdle \/ TimeTurn \/ Rotating \/ Button
  \/ TurnA \/ TurnB
  \/ Dwell

SpecDim == Init /\ [][NextDim]_vars

\* Pressing the button around the 500 ms limit: the menu at a melody, at
\* set-time or at set-alarm, one click of the knob, the button pressed and
\* released at will, time passing in half seconds.
InitPress == \E option \in {0, 2, 3} : Setup(1, option, FALSE, StartTime)

NextPress ==
  \/ Loop
  \/ ClickA \/ ClickB
  \/ ButtonPress \/ ButtonRelease
  \/ ClockTick

SpecPress == InitPress /\ [][NextPress]_vars

\* ------------------------------------------------------------------------
\* Properties
\* ------------------------------------------------------------------------
\* a step of loop(): only loop() moves pc, and each of its steps does
LoopStep == pc' # pc

\* a step of the timer interrupt, of an encoder interrupt
TimerStep == timerTicks' # timerTicks
EncoderStep == A_set' # A_set \/ B_set' # B_set

Sign(n) == IF n > 0 THEN 1 ELSE IF n < 0 THEN -1 ELSE 0

\* the colon and lamp bits of the (inverted) first byte of a frame
FrameColon(f) == ((255 - f.word1) \div colonCode) % 2 = 1
FrameLamp(f) == ((255 - f.word1) \div led3Code) % 2 = 1

\* ---- alarm -------------------------------------------------------------
\* the alarm transition: into playingMelody with the alarm melody selected,
\* at its first note, the play start set to the present
AlarmTransition ==
  /\ currentDisplayStatus # "playingMelody"
  /\ currentDisplayStatus' = "playingMelody"
  /\ melody' = "melody3"
  /\ currentNote' = 0
  /\ soundMillis' = millis

\* C1: the alarm transition happens in an iteration if and only if the
\* iteration started in state time, the alarm is active, and the hour, minute
\* and second read at its start are alarmHour, alarmMinute and 0; no step of
\* any other case of the switch, and no step outside loop(), makes it.
C1_AlarmTrigger ==
  [][/\ (pc = "t_alarm" /\ LoopStep) =>
          (AlarmTransition <=> /\ iterCase = "time"
                               /\ alarmActive
                               /\ Hour(now) = alarmHour
                               /\ Minute(now) = alarmMinute
                               /\ Second(now) = 0)
     /\ AlarmTransition => (pc = "t_alarm" /\ iterCase = "time")
    ]_vars

\* the alarm has just gone off
C1_AlarmFired ==
  /\ pc = "rotating"
  /\ iterCase = "time"
  /\ currentDisplayStatus = "playingMelody"
  /\ melody = "melody3"
  /\ currentNote = 0
  /\ soundMillis = millis

\* C2: the alarm goes off at most once in a minute of the clock, whatever the
\* button and the knob do in between.
C2_NoRepeatedFiring == firesInMinute <= 1

\* ---- encoder -----------------------------------------------------------
\* C3: when the switch is left, an iteration that found encoderPos nonzero
\* has applied exactly one adjustment, in the direction of the sign of the
\* value it found.
C3_ExactlyOneAdjustment ==
  (pc = "rotating" /\ found # <<>>) =>
    (Len(adjusts) = 1 /\ adjusts[1] = Sign(found[1]))

\* C7: when the switch is left, in whatever state the iteration ran,
\* encoderPos is zero unless an encoder interrupt changed it after the
\* iteration last read or reset it.
C7_ReadAndReset == (pc = "rotating" /\ ~irqAfter) => encoderPos = 0

\* ---- display -----------------------------------------------------------
\* C4: every lit frame the timer interrupt emits while the state is
\* playingMelody has exactly one of the colon and the lamp on.
C4_NoTornFrame ==
  [][(TimerStep /\ currentDisplayStatus = "playingMelody" /\ frame'.lit) =>
       (FrameColon(frame') # FrameLamp(frame'))]_vars

\* the brightness level: intensity within the range 0..10 at which lines
\* 221-223 and 229-231 keep it
Level ==
  IF intensity < 0 THEN 0
  ELSE IF intensity > maxIntensity THEN maxIntensity ELSE intensity

\* C8: the sub-tick counter stays in 0..10; at every brightness level 0..10
\* the timer interrupt lights the digit's pattern on the sub-ticks 0..level
\* and emits the blank pattern on the others, always selecting the digit of
\* the dwell; so every complete dwell of 11 ticks has at least one lit tick
\* (level 0) and at most 11 (level 10).
C8_DutyCycle ==
  /\ [](stepCounter \in 0 .. maxStep)
  /\ [](lastDwell = -1 \/ lastDwell \in 1 .. maxIntensity + 1)
  /\ [][TimerStep =>
         /\ frame'.lit = (stepCounter <= Level)
         /\ ~frame'.lit => frame'.word2 = 255
         /\ (255 - frame'.word1) % 16 = digitCode[drawDigit + 1]]_vars

\* ---- user interface ----------------------------------------------------
InMenus == currentDisplayStatus \in {"menu", "setTime", "setAlarm"}

\* the step of loop() that tests the inactivity limit
TimeoutStep == pc \in {"m_timeout", "s_timeout", "a_timeout"} /\ LoopStep

\* an input handled in a menu state: an encoder step applied or a press of
\* the button accepted
MenuInput ==
  \/ Len(adjusts') > Len(adjusts)
  \/ pc = "button" /\ LoopStep /\ pushButton = "LOW"
       /\ millis - menuStartMillis > 500

\* C5: in menu, setTime and setAlarm, menuStartMillis is the time of the last
\* input handled or of the entry to the state; the step that tests the limit
\* turns to time exactly when more than 9000 ms have passed since, and the
\* state is left for time in no other way than this and the button.
C5_InactivityFallback ==
  [][/\ (InMenus /\ MenuInput) => menuStartMillis' = millis
     /\ (~InMenus /\ InMenus') => menuStartMillis' = millis
     /\ (InMenus /\ menuStartMillis' # menuStartMillis) => MenuInput
     /\ TimeoutStep =>
          /\ InMenus
          /\ currentDisplayStatus' = IF millis - menuStartMillis > 9000
                                     THEN "time" ELSE currentDisplayStatus
     /\ (InMenus /\ currentDisplayStatus' = "time") =>
          \/ TimeoutStep /\ millis - menuStartMillis > 9000
          \/ MenuInput
    ]_vars

\* setTime has just been left for time by the limit, no input in between
C5_FellBack ==
  /\ pc = "rotating"
  /\ iterCase = "setTime"
  /\ currentDisplayStatus = "time"
  /\ millis - menuStartMillis > 9000
  /\ adjusts = <<>>

\* C6: playingMelody is left only for time, with noTone issued, and only by
\* an accepted press of the button or when more than 60000 ms have passed
\* since soundMillis; and playback that started (soundMillis set) early
\* enough for the limit to pass ends in time.
C6_MelodyStop ==
  /\ [][(currentDisplayStatus = "playingMelody"
           /\ currentDisplayStatus' # "playingMelody") =>
          /\ currentDisplayStatus' = "time"
          /\ speaker' = NoTone
          /\ \/ pc = "button" /\ pushButton = "LOW"
                  /\ millis - menuStartMillis > 500
             \/ pc = "p_max" /\ millis - soundMillis > 60000]_vars
  /\ (currentDisplayStatus = "playingMelody" /\ pc # "b_sound"
        /\ soundMillis + 60000 + PlayTick <= PlayMillis)
       ~> (currentDisplayStatus = "time")

\* playback has just been ended by the limit, long after the last input
C6_PlayedOut ==
  /\ pc = "rotating"
  /\ iterCase = "playingMelody"
  /\ currentDisplayStatus = "time"
  /\ speaker = NoTone
  /\ millis - soundMillis > 60000
  /\ millis - menuStartMillis > 9000

UIEdge(from, to) ==
  currentDisplayStatus = from /\ currentDisplayStatus' = to

\* C9: the state is time at the start; every change of it is made by a step
\* of loop() and is one of the listed edges, each by its cause; no step of
\* an interrupt handler changes it.
C9_StateGraph ==
  /\ currentDisplayStatus = "time"
  /\ [][currentDisplayStatus' # currentDisplayStatus =>
          /\ LoopStep
          /\ \/ UIEdge("time", "menu") /\ pc = "button"
             \/ UIEdge("time", "playingMelody") /\ pc = "t_alarm"
             \/ UIEdge("menu", "playingMelody") /\ pc = "button"
                  /\ activeMenuOption \in {0, 1}
             \/ UIEdge("menu", "setTime") /\ pc = "button"
                  /\ activeMenuOption = 2
             \/ UIEdge("menu", "setAlarm") /\ pc = "button"
                  /\ activeMenuOption = 3
             \/ UIEdge("menu", "time") /\ pc = "button"
                  /\ activeMenuOption = 4 /\ alarmActive' = ~alarmActive
             \/ UIEdge("menu", "time") /\ pc = "m_timeout"
             \/ UIEdge("setTime", "time")
             \/ UIEdge("setAlarm", "time")
             \/ UIEdge("playingMelody", "time")]_vars
  /\ [][(TimerStep \/ EncoderStep) => UNCHANGED currentDisplayStatus]_vars

\* the menu has just been left for setAlarm, after a click and a timer
\* interrupt
C9_MenuToSetAlarm ==
  /\ pc = "begin"
  /\ iterCase = "menu"
  /\ currentDisplayStatus = "setAlarm"
  /\ edges > 0
  /\ timerTicks > 0

\* C10: while the button line stays low, at most one button action is
\* taken.
C10_SinglePressSingleAction == pressActions <= 1


\* ---- ranges ------------------------------------------------------------
\* C11: in every reachable state intensity is in 0..10, alarmMinute in
\* 0..59, alarmHour in 0..23 and the selected menu option in
\* 0..menuItemCount-1.
C11_Ranges ==
  /\ intensity \in 0..maxIntensity
  /\ alarmMinute \in 0..59
  /\ alarmHour \in 0..23
  /\ activeMenuOption \in 0..(menuItemCount - 1)

\* ---- alarm time --------------------------------------------------------
\* minutes since midnight
MinuteOfDay(h, m) == h * 60 + m

\* C12: a step of setAlarm that handles a positive encoder value moves the
\* alarm time to its successor modulo 1440 minutes, one that handles a
\* negative value to its predecessor, and the opposite step applied to the
\* result gives the alarm time back.
C12_AlarmStepping ==
  [][(LoopStep /\ pc \in {"a_inc", "a_dec"}) =>
       LET dir == IF pc = "a_inc" THEN 1 ELSE -1
           before == MinuteOfDay(alarmHour, alarmMinute)
           after == MinuteOfDay(alarmHour', alarmMinute')
       IN /\ alarmHour' \in 0..23
          /\ alarmMinute' \in 0..59
          /\ after = (before + dir + 1440) % 1440
          /\ NextAlarm(alarmHour', alarmMinute', -dir)
               = <<alarmHour, alarmMinute>>]_vars

\* one iteration of setAlarm stepped the alarm forth from 23:59 and back
C12_MidnightAndBack ==
  /\ iterCase = "setAlarm"
  /\ adjusts = <<1, -1>>
  /\ pc = "a_timeout"
  /\ alarmHour = 23
  /\ alarmMinute = 59

\* ---- toggling the alarm ------------------------------------------------
\* the step of loop() that takes a press of the button in the menu with the
\* toggle-alarm option selected
TogglePress ==
  /\ LoopStep
  /\ pc = "button"
  /\ ButtonAccepted
  /\ currentDisplayStatus = "menu"
  /\ activeMenuOption = menuItemCount - 1

\* C13: an accepted press in the menu at toggle-alarm negates alarmActive,
\* goes to time in that same step, leaves alarmHour and alarmMinute as they
\* are, and a second toggle would give the original alarmActive back.
C13_ToggleAlarm ==
  [][TogglePress =>
       /\ alarmActive' = ~alarmActive
       /\ currentDisplayStatus' = "time"
       /\ alarmHour' = alarmHour
       /\ alarmMinute' = alarmMinute
       /\ ToggleAlarm(alarmActive') = alarmActive]_vars

\* the alarm, off at the start, is off again after a toggling press: it has
\* been switched on and off
C13_ToggledTwice ==
  /\ currentDisplayStatus = "time"
  /\ pc = "begin"
  /\ pressActions = 1
  /\ menuStartMillis = millis
  /\ menuStartMillis > 0
  /\ ~alarmActive

\* ---- who changes the alarm ---------------------------------------------
\* C14: alarmHour and alarmMinute change only in a step of loop() that
\* handles an encoder value in state setAlarm, alarmActive only in the step
\* that takes a press in the menu at toggle-alarm; every other step (the
\* other cases of the switch, the alarm going off, the timeouts, the timer
\* and encoder interrupts) leaves all three as they are.
C14_AlarmFrame ==
  [][/\ (alarmHour' # alarmHour \/ alarmMinute' # alarmMinute) =>
          /\ LoopStep
          /\ currentDisplayStatus = "setAlarm"
          /\ iterCase = "setAlarm"
          /\ pc \in {"a_inc", "a_dec"}
          /\ found # <<>>
          /\ alarmActive' = alarmActive
     /\ alarmActive' # alarmActive => TogglePress]_vars

\* the alarm time has been set back across the hour, and state setAlarm left
\* again
C14_AlarmSetBack ==
  /\ alarmHour = 6
  /\ alarmMinute = 59
  /\ currentDisplayStatus = "time"

\* ---- colon -------------------------------------------------------------
\* an iteration of loop() that ran case time has ended, in state time
TimeIterationDone ==
  /\ pc = "begin"
  /\ now # 0
  /\ iterCase = "time"
  /\ currentDisplayStatus = "time"

\* C15 (as the program has it): after an iteration that ran case time and
\* ended in state time, the colon is on exactly when the second the
\* iteration read from the RTC is odd, and off exactly when it is even.
C15_ColonOnOddSeconds ==
  TimeIterationDone => (colonOn <=> Second(now) % 2 = 1)

\* C15 (as stated): after such an iteration the colon is on exactly when
\* the second is even and off exactly when it is odd.
C15_ColonOnEvenSeconds ==
  TimeIterationDone => (colonOn <=> Second(now) % 2 = 0)

\* the RTC has counted on to 07:00:00 and an iteration in time has put the
\* colon out
C15_ColonOffAtSecondZero ==
  /\ TimeIterationDone
  /\ rtcTicks = 1
  /\ Second(now) = 0
  /\ ~colonOn

\* ---- melody ------------------------------------------------------------
\* a step of loop() that starts a note: the only step that sets noteMillis
NoteStart == LoopStep /\ noteMillis' # noteMillis

\* C16: when a note is started, wholenote is 240000 div tempo (2000 at
\* tempo 120); for a nonzero duration code d the note duration is
\* wholenote div d if d > 0 (500 for code 4) and (wholenote div |d|) * 3/2
\* if d < 0 (750 for code -4); the tone command carries the pitch of the
\* note and 9/10 of the note duration; and the note is started only after
\* the duration of the note before it has passed since that note started.
C16_NoteTiming ==
  [][NoteStart =>
       LET d == Deref(melody, currentNote + 1)
       IN /\ currentDisplayStatus = "playingMelody"
          /\ wholenote = 240000 \div tempo
          /\ tempo = 120 => wholenote = 2000
          /\ d > 0 => noteDuration' = wholenote \div d
          /\ d < 0 => noteDuration' = ((wholenote \div (-d)) * 3) \div 2
          /\ (tempo = 120 /\ d = 4) => noteDuration' = 500
          /\ (tempo = 120 /\ d = -4) => noteDuration' = 750
          /\ speaker' = [cmd |-> "tone",
                         freq |-> Deref(melody, currentNote),
                         dur |-> (noteDuration' * 9) \div 10]
          /\ millis >= noteMillis + noteDuration]_vars

\* a dotted note is playing after a plain one: 750 ms, of which 675 ms tone
C16_DottedNote ==
  /\ currentDisplayStatus = "playingMelody"
  /\ melody = "melody2"
  /\ divider = -4
  /\ noteDuration = 750
  /\ speaker = [cmd |-> "tone", freq |-> NOTE_G4, dur |-> 675]

\* ---- encoder handlers --------------------------------------------------
\* C17: a step outside loop() that flips neither stored phase leaves the
\* accumulator and the debounce flag alone (a handler whose re-sampled level
\* equals the stored phase changes nothing); a step that flips the stored A
\* phase leaves the B phase and adds 1 to the accumulator if the new A phase
\* is high and the B phase low, and nothing otherwise; a step that flips the
\* stored B phase leaves the A phase and subtracts 1 if the new B phase is
\* high and the A phase low, and nothing otherwise.
C17_HandlerEffect ==
  [][/\ (~LoopStep /\ A_set' = A_set /\ B_set' = B_set) =>
          (encoderPos' = encoderPos /\ rotating' = rotating)
     /\ A_set' # A_set =>
          /\ B_set' = B_set
          /\ encoderPos' = encoderPos + (IF A_set' /\ ~B_set THEN 1 ELSE 0)
     /\ B_set' # B_set =>
          /\ A_set' = A_set
          /\ encoderPos' = encoderPos - (IF B_set' /\ ~A_set THEN 1 ELSE 0)]_vars

\* line B rose with A low (one step down), then line A rose with B high
\* (no step): both phases stored high, the accumulator at -1
C17_BothHandlersRan ==
  /\ A_set
  /\ B_set
  /\ edges = 2
  /\ encoderPos = -1
  /\ ~rotating

\* ---- quadrature --------------------------------------------------------
\* full cycles of four level changes begun so far
CyclesBegun == (edges + 3) \div 4

\* C18: with both stored phases low at the start and no reset by loop(), a
\* steady forward turn (A rises, B rises, A falls, B falls, and again) has
\* added exactly 1 to the accumulator for every cycle, on the first change
\* of the cycle, and never lowers it; a steady backward turn (B rises, A
\* rises, B falls, A falls) has subtracted exactly 1 for every cycle and
\* never raises it.
C18_QuadratureDirection ==
  /\ [](/\ knob = "forward" => encoderPos = CyclesBegun
        /\ knob = "backward" => encoderPos = -CyclesBegun
        /\ (knob # "free" /\ edges % 4 = 0) =>
             (~A_set /\ ~B_set /\ Abs(encoderPos) = edges \div 4))
  /\ [][/\ knob = "forward" => encoderPos' >= encoderPos
        /\ knob = "backward" => encoderPos' <= encoderPos]_vars

\* two full cycles backward
C18_TwoCyclesBack ==
  /\ knob = "backward"
  /\ edges = 8
  /\ ~A_set /\ ~B_set
  /\ encoderPos = -2

\* ---- digit multiplexing ------------------------------------------------
\* the digit-select bits of the (inverted) first byte of a frame
FrameSelect(f) == (255 - f.word1) % 16

\* the digit whose turn it is at the tick-th timer interrupt, counted from 0
DigitOfTick(tick) == (tick \div (maxStep + 1)) % 4

\* C19: the sub-tick counter stays in 0..10 and the digit index in 0..3;
\* every frame, lit or blank, selects exactly one digit, the same for 11
\* timer ticks in a row and then the next in the order 0, 1, 2, 3, 0, so
\* that each digit has its turn again 44 ticks later; and the timer
\* interrupt changes nothing of the program's state but the digit index and
\* the sub-tick counter.
C19_DigitMultiplex ==
  /\ [](/\ stepCounter \in 0 .. 10
        /\ drawDigit \in 0 .. 3
        /\ stepCounter = timerTicks % 11
        /\ drawDigit = DigitOfTick(timerTicks))
  /\ [][TimerStep =>
          /\ FrameSelect(frame') \in {1, 2, 4, 8}
          /\ FrameSelect(frame') = digitCode[DigitOfTick(timerTicks) + 1]
          /\ DigitOfTick(timerTicks + 44) = DigitOfTick(timerTicks)
          /\ UNCHANGED <<pc, intensity, now, vUI, vDisp, vSnd, vAlarm,
                         vEnc>>]_vars

\* after 44 ticks the first digit has its turn again: the 45th frame
\* selects it
C19_RoundComplete ==
  /\ timerTicks = 45
  /\ drawDigit = 0
  /\ stepCounter = 1
  /\ FrameSelect(frame) = digitCode[1]

\* ---- melody looping ----------------------------------------------------
\* the index of the END sentinel of track m, looked for at i, i + 2, ...
RECURSIVE SentinelFrom(_, _)
SentinelFrom(m, i) ==
  IF Deref(m, i) = END THEN i ELSE SentinelFrom(m, i + 2)

\* a step that enters playingMelody
MelodyEntry ==
  /\ currentDisplayStatus # "playingMelody"
  /\ currentDisplayStatus' = "playingMelody"

\* C20: every entry into playingMelody (by the alarm, by menu option 0 or 1)
\* sets the note index to 0; while a melody plays the index is even, lies
\* before the sentinel of the track and does not point at the sentinel; a
\* note read is never the sentinel; and starting a note moves the index on
\* by one pair, or back to 0 after the last pair.
C20_MelodyLoop ==
  /\ [](currentDisplayStatus = "playingMelody" =>
          /\ currentNote % 2 = 0
          /\ currentNote >= 0
          /\ currentNote < SentinelFrom(melody, 0)
          /\ Deref(melody, currentNote) # END)
  /\ [][MelodyEntry =>
          /\ currentNote' = 0
          /\ melody' \in {"melody1", "melody2", "melody3"}
          /\ SentinelFrom(melody', 0) >= 2]_vars
  /\ [][NoteStart =>
          /\ speaker'.freq = Deref(melody, currentNote)
          /\ speaker'.freq # END
          /\ currentNote' = IF currentNote + 2 = SentinelFrom(melody, 0)
                            THEN 0 ELSE currentNote + 2]_vars

\* the last pair of the two-note track has been played and the index is
\* back at 0
C20_TrackStartsOver ==
  /\ currentDisplayStatus = "playingMelody"
  /\ melody = "melody2"
  /\ divider = -4
  /\ speaker.freq = NOTE_G4
  /\ currentNote = 0

\* ---- button and inactivity timer ---------------------------------------
\* the step of loop() at the button block, and whether it acted: every
\* button action changes the state of the clock
ButtonStep == LoopStep /\ pc = "button"
ButtonActed == ButtonStep /\ currentDisplayStatus' # currentDisplayStatus

\* a step of loop() that handles an encoder value outside state time
MenuEncoderStep ==
  LoopStep /\ pc \in {"m_inc", "m_dec", "s_inc", "s_dec", "a_inc", "a_dec"}

\* C21: at the button block the button is acted on if and only if its line
\* is low and more than 500 ms have passed since menuStartMillis (so a low
\* line read within 500 ms of it is passed over); menuStartMillis is set to
\* the present by every button action and by every encoder value handled in
\* menu, setTime or setAlarm, and by nothing else, the steps of state time
\* included; it never runs ahead of millis() nor goes back, so that any two
\* button actions are more than 500 ms apart.
C21_ButtonSharesTimer ==
  /\ [](menuStartMillis <= millis)
  /\ [][ButtonStep =>
          (ButtonActed <=>
             (pushButton = "LOW" /\ millis - menuStartMillis > 500))]_vars
  /\ [][(ButtonActed \/ MenuEncoderStep) => menuStartMillis' = millis]_vars
  /\ [][menuStartMillis' # menuStartMillis =>
          (ButtonActed \/ MenuEncoderStep)]_vars
  /\ [][menuStartMillis' >= menuStartMillis]_vars

\* the button, pressed after a step of the knob in setAlarm (the alarm time
\* is no longer the default), has been read 500 ms after that step and passed
\* over
C21_PressPassedOver ==
  /\ pc = "begin"
  /\ iterCase = "setAlarm"
  /\ currentDisplayStatus = "setAlarm"
  /\ <<alarmHour, alarmMinute>> # <<7, 0>>
  /\ pushButton = "LOW"
  /\ pressActions = 0
  /\ menuStartMillis = 2000
  /\ millis = 2500

============================================================================
